---- MODULE Spec2Model ----
(***************************************************************************)
(* A model of github.com/white43/go-secenv (latest revision of secenv.go): *)
(* SecEnv.Get, SecEnv.auth, SecEnv.request, SecEnv.parse and splitName,    *)
(* called from several goroutines on one resolver.                         *)
(*                                                                         *)
(* Go strings that the code inspects or that travel through JSON           *)
(* (environment values, paths, fields, secret values, tokens) are          *)
(* sequences of one-character strings.  The auth method and the messages   *)
(* of an error chain are TLA+ strings.                                     *)
(*                                                                         *)
(* Spec runs one goroutine over every configuration, environment value     *)
(* and answer of the secret service; SpecConc runs two goroutines on a     *)
(* resolver that authenticates with kubernetes; SpecNames runs one         *)
(* goroutine over every indirection string of a small alphabet;           *)
(* SpecShared runs one goroutine on two SecEnv that share                  *)
(* defaultConfig.auth.                                                     *)
(***************************************************************************)
EXTENDS Integers, Sequences, FiniteSets, TLC

(***************************************************************************)
(* Bounds of the model.                                                    *)
(***************************************************************************)
MaxTime == 1          \* the clock runs over 0..MaxTime (seconds)
MaxLease == 1         \* lease_duration values the auth endpoint returns: 0..MaxLease
MaxLen == 3           \* length of the indirection strings SpecNames resolves

Procs == {1, 2}       \* goroutines calling Get on the one resolver

(***************************************************************************)
(* Constants of the program.                                               *)
(***************************************************************************)
prefix == <<"V", "A", "U", "L", "T", ":">>
authKubernetes == "kubernetes"
secretDataPath == <<"/", "v", "1", "/", "s", "e", "c", "r", "e", "t", "/", "d", "a", "t", "a">>
secretPrefix == <<"/", "v", "1", "/", "s", "e", "c", "r", "e", "t">>
loginPath == <<"/", "v", "1", "/", "a", "u", "t", "h", "/", "k", "u", "b", "e", "r", "n", "e", "t", "e", "s", "/", "l", "o", "g", "i", "n">>
defaultField == <<"v", "a", "l", "u", "e">>

(***************************************************************************)
(* package strings                                                         *)
(***************************************************************************)
HasPrefixShort(s, p) ==
    LET n == IF Len(s) < Len(p) THEN Len(s) ELSE Len(p)
    IN  SubSeq(s, 1, n) = SubSeq(p, 1, n)

HasPrefix(s, p) ==
    Len(s) >= Len(p) /\ SubSeq(s, 1, Len(p)) = p

TrimPrefix(s, p) ==
    IF HasPrefix(s, p) THEN SubSeq(s, Len(p) + 1, Len(s)) ELSE s

\* strings.Index for a one-character separator: the first position, or 0
Index(s, c) ==
    IF \E i \in 1..Len(s) : s[i] = c
    THEN CHOOSE i \in 1..Len(s) : s[i] = c /\ \A j \in 1..(i - 1) : s[j] # c
    ELSE 0

\* strings.SplitN(s, sep, 2)
SplitN2(s, c) ==
    LET i == Index(s, c)
    IN  IF i = 0 THEN <<s>> ELSE <<SubSeq(s, 1, i - 1), SubSeq(s, i + 1, Len(s))>>

\* strings.Split(s, sep)
RECURSIVE Split(_, _)
Split(s, c) ==
    LET i == Index(s, c)
    IN  IF i = 0 THEN <<s>>
        ELSE <<SubSeq(s, 1, i - 1)>> \o Split(SubSeq(s, i + 1, Len(s)), c)

(***************************************************************************)
(* splitName                                                               *)
(***************************************************************************)
\* the split at the last "."
splitNameLast(value) ==
    LET v == Split(value, ".")
    IN  IF Len(v) >= 2
        THEN [path |-> SubSeq(value, 1, Len(value) - Len(v[Len(v)]) - 1), field |-> v[Len(v)]]
        ELSE [path |-> v[1], field |-> defaultField]

splitName(value) ==
    LET v == SplitN2(value, ".")
    IN  IF Len(v) = 2
        THEN [path |-> v[1], field |-> v[2]]
        ELSE [path |-> v[1], field |-> defaultField]

(***************************************************************************)
(* path/filepath: Clean of a rooted path and Join of a rooted directory    *)
(* with one element.                                                       *)
(***************************************************************************)
RECURSIVE CleanSegs(_, _)
CleanSegs(segs, out) ==
    IF segs = <<>> THEN out
    ELSE LET h == Head(segs)
             t == Tail(segs)
         IN  IF h = <<>> \/ h = <<".">> THEN CleanSegs(t, out)
             ELSE IF h = <<".", ".">>
                  THEN CleanSegs(t, IF out = <<>> THEN out ELSE SubSeq(out, 1, Len(out) - 1))
                  ELSE CleanSegs(t, Append(out, h))

RECURSIVE JoinSegs(_)
JoinSegs(segs) ==
    IF segs = <<>> THEN <<>>
    ELSE <<"/">> \o Head(segs) \o JoinSegs(Tail(segs))

\* filepath.Clean(p) for p starting with "/"
CleanRooted(p) ==
    LET segs == CleanSegs(Split(p, "/"), <<>>)
    IN  IF segs = <<>> THEN <<"/">> ELSE JoinSegs(segs)

\* the directory, a separator and the element, as written
JoinRaw(dir, elem) == dir \o <<"/">> \o elem

\* filepath.Join(dir, elem) for a rooted dir: empty elements are ignored
Join(dir, elem) ==
    IF elem = <<>> THEN CleanRooted(dir) ELSE CleanRooted(dir \o <<"/">> \o elem)

(***************************************************************************)
(* JSON documents.  A value is a record [t, s, n, m]: t is the JSON type,  *)
(* s the text of a string, n the value of a number, m the members of an    *)
(* object (a function from keys to values).                                *)
(***************************************************************************)
JNull == [t |-> "null", s |-> <<>>, n |-> 0, m |-> <<>>]
JBool == [t |-> "bool", s |-> <<>>, n |-> 0, m |-> <<>>]
JArr == [t |-> "arr", s |-> <<>>, n |-> 0, m |-> <<>>]
JStr(x) == [t |-> "str", s |-> x, n |-> 0, m |-> <<>>]
JNum(k) == [t |-> "num", s |-> <<>>, n |-> k, m |-> <<>>]
JObj(f) == [t |-> "obj", s |-> <<>>, n |-> 0, m |-> f]
JEmpty == JObj(<<>>)

kData == <<"d", "a", "t", "a">>
kAuth == <<"a", "u", "t", "h">>
kClientToken == <<"c", "l", "i", "e", "n", "t", "_", "t", "o", "k", "e", "n">>
kLeaseDuration == <<"l", "e", "a", "s", "e", "_", "d", "u", "r", "a", "t", "i", "o", "n">>

(***************************************************************************)
(* encoding/json.Unmarshal into the struct Secret                          *)
(*   Data map[string]map[string]any `json:"data"`                          *)
(*   Auth *SecretAuth               `json:"auth,omitempty"`                *)
(* A value of static type any keeps its JSON value; GoType is the dynamic  *)
(* type the decoder gives it.                                              *)
(***************************************************************************)
GoType(j) ==
    CASE j.t = "str" -> "string"
      [] j.t = "num" -> "float64"
      [] j.t = "bool" -> "bool"
      [] j.t = "obj" -> "map[string]interface {}"
      [] j.t = "arr" -> "[]interface {}"
      [] OTHER -> "nil"

NilMap == [nil |-> TRUE, m |-> <<>>]
NilAuth == [nil |-> TRUE, ClientToken |-> <<>>, LeaseDuration |-> 0]
ZeroSecret == [Data |-> [nil |-> TRUE, m |-> <<>>], Auth |-> NilAuth]

\* one element of Data: a map[string]any
DecodeInner(j) ==
    CASE j.t = "obj" -> [err |-> FALSE, v |-> [nil |-> FALSE, m |-> j.m]]
      [] j.t = "null" -> [err |-> FALSE, v |-> NilMap]
      [] OTHER -> [err |-> TRUE, v |-> NilMap]

\* the field Data
DecodeData(j) ==
    CASE j.t = "obj" ->
           [err |-> \E k \in DOMAIN j.m : DecodeInner(j.m[k]).err,
            v |-> [nil |-> FALSE, m |-> [k \in DOMAIN j.m |-> DecodeInner(j.m[k]).v]]]
      [] j.t = "null" -> [err |-> FALSE, v |-> [nil |-> TRUE, m |-> <<>>]]
      [] OTHER -> [err |-> TRUE, v |-> [nil |-> TRUE, m |-> <<>>]]

\* the field Auth
DecodeAuth(j) ==
    CASE j.t = "obj" ->
           LET hasTok == kClientToken \in DOMAIN j.m
               hasDur == kLeaseDuration \in DOMAIN j.m
               tokOk == hasTok => j.m[kClientToken].t \in {"str", "null"}
               durOk == hasDur => j.m[kLeaseDuration].t \in {"num", "null"}
           IN  [err |-> ~(tokOk /\ durOk),
                v |-> [nil |-> FALSE,
                       ClientToken |-> IF hasTok /\ j.m[kClientToken].t = "str"
                                       THEN j.m[kClientToken].s ELSE <<>>,
                       LeaseDuration |-> IF hasDur /\ j.m[kLeaseDuration].t = "num"
                                         THEN j.m[kLeaseDuration].n ELSE 0]]
      [] j.t = "null" -> [err |-> FALSE, v |-> NilAuth]
      [] OTHER -> [err |-> TRUE, v |-> NilAuth]

\* a body is [valid, json]: valid is FALSE for text that is not JSON.
\* err is the type of the error returned, "" for nil
Unmarshal(body) ==
    IF ~body.valid THEN [err |-> "json.SyntaxError", secret |-> ZeroSecret]
    ELSE LET j == body.json
         IN  CASE j.t = "obj" ->
                    LET d == IF kData \in DOMAIN j.m THEN DecodeData(j.m[kData])
                             ELSE [err |-> FALSE, v |-> [nil |-> TRUE, m |-> <<>>]]
                        a == IF kAuth \in DOMAIN j.m THEN DecodeAuth(j.m[kAuth])
                             ELSE [err |-> FALSE, v |-> NilAuth]
                    IN  [err |-> IF d.err \/ a.err THEN "json.UnmarshalTypeError" ELSE "",
                         secret |-> [Data |-> d.v, Auth |-> a.v]]
               [] j.t = "null" -> [err |-> "", secret |-> ZeroSecret]
               [] OTHER -> [err |-> "json.UnmarshalTypeError", secret |-> ZeroSecret]

(***************************************************************************)
(* SecEnv.parse: a response is [kind, body]; kind "bodyerr" is a body      *)
(* whose read fails.  The result is the error chain (<<>> is nil) and the  *)
(* decoded Secret.  An error made with %w keeps its cause as the next      *)
(* element of the chain.                                                   *)
(***************************************************************************)
\* the error of Unmarshal formatted without %w
parseNoCause(response) ==
    IF response.kind = "bodyerr"
    THEN [err |-> <<"reading body error", "io error">>, secret |-> ZeroSecret]
    ELSE LET u == Unmarshal(response.body)
         IN  [err |-> IF u.err # "" THEN <<"unmarshalling error">> ELSE <<>>,
              secret |-> u.secret]

parse(response) ==
    IF response.kind = "bodyerr"
    THEN [err |-> <<"reading body error", "io error">>, secret |-> ZeroSecret]
    ELSE LET u == Unmarshal(response.body)
         IN  [err |-> IF u.err # "" THEN <<"unmarshalling error", u.err>> ELSE <<>>,
              secret |-> u.secret]

(***************************************************************************)
(* strconv.FormatInt(n, 10)                                                *)
(***************************************************************************)
Digit(d) ==
    CASE d = 0 -> "0" [] d = 1 -> "1" [] d = 2 -> "2" [] d = 3 -> "3" [] d = 4 -> "4"
      [] d = 5 -> "5" [] d = 6 -> "6" [] d = 7 -> "7" [] d = 8 -> "8" [] OTHER -> "9"

RECURSIVE FormatNat(_)
FormatNat(n) ==
    IF n < 10 THEN <<Digit(n)>> ELSE Append(FormatNat(n \div 10), Digit(n % 10))

FormatInt(n) ==
    IF n < 0 THEN <<"-">> \o FormatNat(0 - n) ELSE FormatNat(n)

(***************************************************************************)
(* SecEnv.Get, from the lookup of the nested mapping to the type switch.   *)
(* The result is [val, err]; "secenv" at the head of an error chain is the *)
(* secenv(<name>) context.                                                 *)
(***************************************************************************)
OkResult(v) == [val |-> v, err |-> <<>>]
ErrResult(e) == [val |-> <<>>, err |-> e]

\* the lookup of the field in the top-level data mapping
extractFieldFlat(secret, field) ==
    IF secret.Data.nil \/ field \notin DOMAIN secret.Data.m
    THEN ErrResult(<<"secenv", "no data returned">>)
    ELSE ErrResult(<<"secenv", "wrong value type">>)

extractField(secret, field) ==
    IF secret.Data.nil \/ kData \notin DOMAIN secret.Data.m
    THEN ErrResult(<<"no second level data was found">>)
    ELSE LET innerData == secret.Data.m[kData]
         IN  IF innerData.nil \/ field \notin DOMAIN innerData.m
             THEN ErrResult(<<"secenv", "no data returned">>)
             ELSE LET v == innerData.m[field]
                  IN  CASE GoType(v) = "string" -> OkResult(v.s)
                        [] GoType(v) = "int" -> OkResult(FormatInt(v.n))
                        [] OTHER -> ErrResult(<<"secenv", "wrong value type">>)

(***************************************************************************)
(* The collaborators: the process environment, the token file, the secret  *)
(* service and its auth endpoint.                                          *)
(***************************************************************************)
vOlolo == <<"O", "l", "o", "l", "o">>
tokStatic == <<"s">>
tokA == <<"a">>
tokB == <<"b">>
kF == <<"f">>
kBC == <<"b", ".", "c">>

\* os.Getenv: the variables of the process (an unset variable reads as "")
Environ ==
    [PLAIN |-> vOlolo,
     UNSET |-> <<>>,
     SHORT |-> <<"V", "A", "U", "L", "T">>,
     TEST  |-> prefix \o <<"t">>,
     FIELD |-> prefix \o <<"t", ".", "f">>,
     DOTS  |-> prefix \o <<"a", ".", "b", ".", "c">>,
     UP    |-> prefix \o <<".", ".", "/", ".", ".", "/", "x">>]

\* what follows the marker in the values SpecNames resolves
Alphabet == {"a", ".", "/"}
Indirections == UNION {[1..k -> Alphabet] : k \in 0..MaxLen}

\* the variable the two-goroutine runs resolve
EnvironTest == [TEST |-> prefix \o <<"t">>]

InvalidBody == [valid |-> FALSE, json |-> JNull]
Body(j) == [valid |-> TRUE, json |-> j]
Nested(f) == Body(JObj(kData :> JObj(kData :> JObj(f))))
Flat(f) == Body(JObj(kData :> JObj(f)))

\* bodies the secret service answers a read with
ReadBodies ==
    {InvalidBody,
     Body(JNull),
     Body(JStr(vOlolo)),
     Body(JEmpty),
     Body(JObj(kData :> JNull)),
     Flat(<<>>),
     Flat(defaultField :> JStr(vOlolo)),
     Flat(kF :> JStr(vOlolo)),
     Flat(kData :> JNull),
     Nested(<<>>),
     Nested(defaultField :> JStr(vOlolo)),
     Nested(kF :> JStr(vOlolo) @@ defaultField :> JStr(tokA)),
     Nested(kBC :> JStr(vOlolo)),
     Nested(defaultField :> JNum(42)),
     Nested(defaultField :> JBool),
     Nested(defaultField :> JNull)}

AuthBody(tok, dur) ==
    Body(JObj(kAuth :> JObj(kClientToken :> JStr(tok) @@ kLeaseDuration :> JNum(dur))))

\* bodies the auth endpoint answers a login with
AuthBodies ==
    {AuthBody(tok, dur) : tok \in {<<>>, tokA, tokB}, dur \in 0..MaxLease}
    \cup {InvalidBody,
          Body(JEmpty),
          Body(JObj(kAuth :> JNull)),
          Body(JObj(kAuth :> JStr(tokA))),
          Body(JObj(kAuth :> JEmpty))}

\* what http.Client.Do and the read of the body can produce
Responses(bodies) ==
    {[kind |-> "transport", body |-> InvalidBody], [kind |-> "bodyerr", body |-> InvalidBody]}
    \cup {[kind |-> "ok", body |-> b] : b \in bodies}

NoRequest == [verb |-> "none", path |-> <<>>, hasToken |-> FALSE, tok |-> <<>>]
NoResult == [done |-> FALSE, val |-> <<>>, err |-> <<>>]
Done(r) == [done |-> TRUE, val |-> r.val, err |-> r.err]

(***************************************************************************)
(* The state: the resolver (Config and Auth), the clock, and for every     *)
(* goroutine the position and the locals of its call of Get.               *)
(***************************************************************************)
VARIABLES
    clock,       \* time.Now(), in seconds
    method,      \* cfg.auth.method
    tokenFile,   \* TRUE when os.ReadFile(cfg.auth.tokenPath) succeeds
    addrOK,      \* TRUE when cfg.addr makes a URL http.NewRequest accepts
    token,       \* cfg.token
    token2,      \* cfg.token of a second SecEnv that NewSecEnv built on defaultConfig.auth
    built,       \* the number of SecEnv built on defaultConfig.auth: 1 or 2
    se,          \* the SecEnv each goroutine calls Get on: 1 or 2
    staticToken, \* cfg.token as NewSecEnv set it
    expireAt,    \* cfg.auth.expireAt
    mu,          \* cfg.auth.mu: 0 when free, else the goroutine holding it
    pc,          \* position of each goroutine in Get / auth
    name,        \* Get: name
    value,       \* Get: value, as read from the environment
    now,         \* auth: now
    parsed,      \* Get: path, field
    authSecret,  \* auth: secret.Auth as decoded
    ret,         \* the result of the current (or last) call of Get
    nFile,       \* reads of the token file in the current call
    nExch,       \* login requests handed to the transport in the current call
    nRead,       \* read requests handed to the transport in the current call
    lastReq,     \* the last request the call handed to the transport
    respKind,    \* how the read request of the call ended: "none", "transport", "bodyerr", "ok"
    environ,     \* the environment of the process: name -> value
    secretBody,  \* the body the secret service answers a read with
    blocked,     \* TRUE when the call waited for the lock during another call's login
    repeat       \* TRUE when the call started last repeats its goroutine's resolved name

vars == <<clock, method, tokenFile, addrOK, token, token2, built, se, staticToken, expireAt, mu, pc, name, value, now,
          parsed, authSecret, ret, nFile, nExch, nRead, lastReq, respKind, environ,
          secretBody, blocked, repeat>>

config == <<method, tokenFile, addrOK, staticToken, environ, secretBody, built>>

\* os.Getenv
Getenv(n) == environ[n]

\* NewSecEnv: the resolver as constructed, no call in progress
InitLocals ==
    /\ clock = 0
    /\ expireAt = 0
    /\ mu = 0
    /\ name = [p \in Procs |-> "UNSET"]
    /\ value = [p \in Procs |-> <<>>]
    /\ now = [p \in Procs |-> 0]
    /\ parsed = [p \in Procs |-> [path |-> <<>>, field |-> <<>>]]
    /\ authSecret = [p \in Procs |-> NilAuth]
    /\ ret = [p \in Procs |-> NoResult]
    /\ nFile = [p \in Procs |-> 0]
    /\ nExch = [p \in Procs |-> 0]
    /\ nRead = [p \in Procs |-> 0]
    /\ lastReq = [p \in Procs |-> NoRequest]
    /\ respKind = [p \in Procs |-> "none"]
    /\ blocked = [p \in Procs |-> FALSE]
    /\ repeat = FALSE
    /\ se = [p \in Procs |-> 1]

\* one goroutine calls Get, on any configuration, environment and secret service
Init ==
    /\ InitLocals
    /\ method \in {"", authKubernetes}
    /\ tokenFile \in BOOLEAN
    /\ addrOK \in BOOLEAN
    /\ token \in {<<>>, tokStatic}
    /\ staticToken = token
    /\ token2 = <<>>
    /\ built = 1
    /\ environ = Environ
    /\ secretBody \in ReadBodies
    /\ pc = [p \in Procs |-> IF p = 1 THEN "idle" ELSE "off"]

\* every goroutine calls Get, on a resolver that authenticates with kubernetes
InitConc ==
    /\ InitLocals
    /\ method = authKubernetes
    /\ tokenFile = TRUE
    /\ addrOK = TRUE
    /\ token \in {<<>>, tokStatic}
    /\ staticToken = token
    /\ token2 = <<>>
    /\ built = 1
    /\ environ = EnvironTest
    /\ secretBody = Nested(defaultField :> JStr(vOlolo))
    /\ pc = [p \in Procs |-> "idle"]

\* se.cfg.token, for the SecEnv goroutine p calls Get on
Token(p) == IF se[p] = 1 THEN token ELSE token2

\* se.cfg.token = t
StoreToken(p, t) ==
    /\ token' = IF se[p] = 1 THEN t ELSE token
    /\ token2' = IF se[p] = 1 THEN token2 ELSE t

\* the header set on every request
requestAlwaysToken(p, verb, path) ==
    IF ~addrOK
    THEN [err |-> <<"building request error">>, req |-> NoRequest]
    ELSE [err |-> <<>>,
          req |-> [verb |-> verb, path |-> path, hasToken |-> TRUE, tok |-> Token(p)]]

\* SecEnv.request up to client.Do: the request built, or the build error
request(p, verb, path) ==
    IF ~addrOK
    THEN [err |-> <<"building request error">>, req |-> NoRequest]
    ELSE [err |-> <<>>,
          req |-> [verb |-> verb, path |-> path,
                   hasToken |-> HasPrefix(path, secretPrefix),
                   tok |-> IF HasPrefix(path, secretPrefix) THEN Token(p) ELSE <<>>]]

\* auth, line 201: se.cfg.auth.mu.Lock() returns only when the mutex is free
LockAlways(m) == TRUE

Lock(m) == m = 0

\* auth, line 206: expireAt.Before(now) || expireAt.Equal(now)
ExpiredStrict(e, t) == e < t

Expired(e, t) == e <= t

\* auth, line 234: now.Add(time.Duration(LeaseDuration) * time.Second)
ExpiryNoLease(t, lease) == t

Expiry(t, lease) == t + lease

\* Get, line 142: se.cfg.token == ""
NoTokenNever(t) == FALSE

NoToken(t) == t = <<>>

\* Get returns r
Return(p, r) ==
    /\ pc' = [pc EXCEPT ![p] = "idle"]
    /\ ret' = [ret EXCEPT ![p] = Done(r)]

\* Get(name), lines 128-140: the read of the environment and the short cut
Call(p, n, s) ==
    /\ pc[p] = "idle"
    /\ se' = [se EXCEPT ![p] = s]
    /\ name' = [name EXCEPT ![p] = n]
    /\ value' = [value EXCEPT ![p] = Getenv(n)]
    /\ parsed' = [parsed EXCEPT ![p] = [path |-> <<>>, field |-> <<>>]]
    /\ authSecret' = [authSecret EXCEPT ![p] = NilAuth]
    /\ nFile' = [nFile EXCEPT ![p] = 0]
    /\ nExch' = [nExch EXCEPT ![p] = 0]
    /\ nRead' = [nRead EXCEPT ![p] = 0]
    /\ lastReq' = [lastReq EXCEPT ![p] = NoRequest]
    /\ respKind' = [respKind EXCEPT ![p] = "none"]
    /\ blocked' = [blocked EXCEPT ![p] = FALSE]
    /\ repeat' = (ret[p].done /\ ret[p].err = <<>> /\ name[p] = n
                      /\ HasPrefix(Getenv(n), prefix))
    /\ IF ~HasPrefix(Getenv(n), prefix)
       THEN Return(p, OkResult(Getenv(n)))
       ELSE /\ pc' = [pc EXCEPT ![p] = IF method = authKubernetes THEN "auth_lock"
                                       ELSE "check_token"]
            /\ ret' = [ret EXCEPT ![p] = NoResult]
    /\ UNCHANGED <<clock, config, token, token2, expireAt, mu, now>>

\* auth going on to the token check when the token file cannot be read
AuthEnterIgnoreFile(p) ==
    /\ UNCHANGED <<repeat, se>>
    /\ pc[p] = "auth_lock"
    /\ Lock(mu)
    /\ now' = [now EXCEPT ![p] = clock]
    /\ IF Expired(expireAt, clock)
       THEN IF ~tokenFile
            THEN /\ pc' = [pc EXCEPT ![p] = "check_token"]
                 /\ UNCHANGED ret
                 /\ nFile' = [nFile EXCEPT ![p] = @ + 1]
                 /\ UNCHANGED <<mu, nExch, lastReq, blocked>>
            ELSE LET r == request(p, "PUT", loginPath)
                 IN  /\ nFile' = [nFile EXCEPT ![p] = @ + 1]
                     /\ IF r.err # <<>>
                        THEN /\ Return(p, ErrResult(<<"secenv", "kubernetes auth request error">> \o r.err))
                             /\ UNCHANGED <<mu, nExch, lastReq, blocked>>
                        ELSE /\ mu' = p
                             /\ pc' = [pc EXCEPT ![p] = "auth_wait"]
                             /\ nExch' = [nExch EXCEPT ![p] = @ + 1]
                             /\ lastReq' = [lastReq EXCEPT ![p] = r.req]
                             /\ blocked' = [q \in Procs |->
                                              blocked[q] \/ (q # p /\ pc[q] = "auth_lock")]
                             /\ UNCHANGED ret
       ELSE /\ pc' = [pc EXCEPT ![p] = "check_token"]
            /\ UNCHANGED <<mu, ret, nFile, nExch, lastReq, blocked>>
    /\ UNCHANGED <<clock, config, token, token2, expireAt, name, value, parsed, authSecret, nRead, respKind>>

\* auth, lines 201-225: the lock, the expiry check, the token file, the login request
AuthEnter(p) ==
    /\ UNCHANGED <<repeat, se>>
    /\ pc[p] = "auth_lock"
    /\ Lock(mu)
    /\ now' = [now EXCEPT ![p] = clock]
    /\ IF Expired(expireAt, clock)
       THEN IF ~tokenFile
            THEN /\ Return(p, ErrResult(<<"secenv", "read token file error">>))
                 /\ nFile' = [nFile EXCEPT ![p] = @ + 1]
                 /\ UNCHANGED <<mu, nExch, lastReq, blocked>>
            ELSE LET r == request(p, "PUT", loginPath)
                 IN  /\ nFile' = [nFile EXCEPT ![p] = @ + 1]
                     /\ IF r.err # <<>>
                        THEN /\ Return(p, ErrResult(<<"secenv", "kubernetes auth request error">> \o r.err))
                             /\ UNCHANGED <<mu, nExch, lastReq, blocked>>
                        ELSE /\ mu' = p
                             /\ pc' = [pc EXCEPT ![p] = "auth_wait"]
                             /\ nExch' = [nExch EXCEPT ![p] = @ + 1]
                             /\ lastReq' = [lastReq EXCEPT ![p] = r.req]
                             /\ blocked' = [q \in Procs |->
                                              blocked[q] \/ (q # p /\ pc[q] = "auth_lock")]
                             /\ UNCHANGED ret
       ELSE /\ pc' = [pc EXCEPT ![p] = "check_token"]
            /\ UNCHANGED <<mu, ret, nFile, nExch, lastReq, blocked>>
    /\ UNCHANGED <<clock, config, token, token2, expireAt, name, value, parsed, authSecret, nRead, respKind>>

\* the response of the login, with the lock released before the expiry is stored
AuthResponseUnlock(p, r) ==
    /\ UNCHANGED <<repeat, se>>
    /\ pc[p] = "auth_wait"
    /\ IF r.kind = "transport"
       THEN /\ Return(p, ErrResult(<<"secenv", "kubernetes auth request error",
                                     "doing remote request error">>))
            /\ mu' = 0
            /\ UNCHANGED <<token, token2, authSecret>>
       ELSE LET pr == parse(r)
            IN  IF pr.err # <<>>
                THEN /\ Return(p, ErrResult(<<"secenv", "parsing kubernetes auth response error">>
                                            \o pr.err))
                     /\ mu' = 0
                     /\ UNCHANGED <<token, token2, authSecret>>
                ELSE IF pr.secret.Auth.nil
                     THEN \* secret.Auth.ClientToken on a nil pointer: the goroutine
                          \* panics, the deferred Unlock runs
                          /\ pc' = [pc EXCEPT ![p] = "panic"]
                          /\ mu' = 0
                          /\ UNCHANGED <<token, token2, authSecret, ret>>
                     ELSE /\ StoreToken(p, pr.secret.Auth.ClientToken)
                          /\ authSecret' = [authSecret EXCEPT ![p] = pr.secret.Auth]
                          /\ pc' = [pc EXCEPT ![p] = "auth_expire"]
                          /\ mu' = 0
                          /\ UNCHANGED ret
    /\ UNCHANGED <<clock, config, expireAt, name, value, now, parsed, nFile, nExch, nRead,
                   lastReq, respKind, blocked>>

\* the response of the login, with the token dropped when the login fails
AuthResponseClearToken(p, r) ==
    /\ UNCHANGED <<repeat, se>>
    /\ pc[p] = "auth_wait"
    /\ IF r.kind = "transport"
       THEN /\ Return(p, ErrResult(<<"secenv", "kubernetes auth request error",
                                     "doing remote request error">>))
            /\ mu' = 0
            /\ StoreToken(p, <<>>)
            /\ UNCHANGED authSecret
       ELSE LET pr == parse(r)
            IN  IF pr.err # <<>>
                THEN /\ Return(p, ErrResult(<<"secenv", "parsing kubernetes auth response error">>
                                            \o pr.err))
                     /\ mu' = 0
                     /\ StoreToken(p, <<>>)
                     /\ UNCHANGED authSecret
                ELSE IF pr.secret.Auth.nil
                     THEN \* secret.Auth.ClientToken on a nil pointer: the goroutine
                          \* panics, the deferred Unlock runs
                          /\ pc' = [pc EXCEPT ![p] = "panic"]
                          /\ mu' = 0
                          /\ UNCHANGED <<token, token2, authSecret, ret>>
                     ELSE /\ StoreToken(p, pr.secret.Auth.ClientToken)
                          /\ authSecret' = [authSecret EXCEPT ![p] = pr.secret.Auth]
                          /\ pc' = [pc EXCEPT ![p] = "auth_expire"]
                          /\ UNCHANGED <<mu, ret>>
    /\ UNCHANGED <<clock, config, expireAt, name, value, now, parsed, nFile, nExch, nRead,
                   lastReq, respKind, blocked>>

\* auth, lines 222-233: the response of the login, its decoding, the store of the token
AuthResponse(p, r) ==
    /\ UNCHANGED <<repeat, se>>
    /\ pc[p] = "auth_wait"
    /\ IF r.kind = "transport"
       THEN /\ Return(p, ErrResult(<<"secenv", "kubernetes auth request error",
                                     "doing remote request error">>))
            /\ mu' = 0
            /\ UNCHANGED <<token, token2, authSecret>>
       ELSE LET pr == parse(r)
            IN  IF pr.err # <<>>
                THEN /\ Return(p, ErrResult(<<"secenv", "parsing kubernetes auth response error">>
                                            \o pr.err))
                     /\ mu' = 0
                     /\ UNCHANGED <<token, token2, authSecret>>
                ELSE IF pr.secret.Auth.nil
                     THEN \* secret.Auth.ClientToken on a nil pointer: the goroutine
                          \* panics, the deferred Unlock runs
                          /\ pc' = [pc EXCEPT ![p] = "panic"]
                          /\ mu' = 0
                          /\ UNCHANGED <<token, token2, authSecret, ret>>
                     ELSE /\ StoreToken(p, pr.secret.Auth.ClientToken)
                          /\ authSecret' = [authSecret EXCEPT ![p] = pr.secret.Auth]
                          /\ pc' = [pc EXCEPT ![p] = "auth_expire"]
                          /\ UNCHANGED <<mu, ret>>
    /\ UNCHANGED <<clock, config, expireAt, name, value, now, parsed, nFile, nExch, nRead,
                   lastReq, respKind, blocked>>

\* auth, lines 234-237: the store of the expiry, the unlock, return nil
AuthStoreExpire(p) ==
    /\ UNCHANGED <<repeat, se>>
    /\ pc[p] = "auth_expire"
    /\ expireAt' = Expiry(now[p], authSecret[p].LeaseDuration)
    /\ mu' = 0
    /\ pc' = [pc EXCEPT ![p] = "check_token"]
    /\ UNCHANGED <<clock, config, token, token2, name, value, now, parsed, authSecret, ret, nFile,
                   nExch, nRead, lastReq, respKind, blocked>>

\* Get, lines 142-147: the token check, the split of the value
CheckToken(p) ==
    /\ UNCHANGED <<repeat, se>>
    /\ pc[p] = "check_token"
    /\ IF NoToken(Token(p))
       THEN /\ Return(p, ErrResult(<<"no token provided">>))
            /\ UNCHANGED parsed
       ELSE /\ parsed' = [parsed EXCEPT ![p] = splitName(TrimPrefix(value[p], prefix))]
            /\ pc' = [pc EXCEPT ![p] = "request"]
            /\ UNCHANGED ret
    /\ UNCHANGED <<clock, config, token, token2, expireAt, mu, name, value, now, authSecret, nFile,
                   nExch, nRead, lastReq, respKind, blocked>>

\* the read request, answered from a cache when the name was resolved before
SendReadCached(p) ==
    /\ UNCHANGED <<repeat, se>>
    /\ pc[p] = "request"
    /\ LET r == request(p, "GET", Join(secretDataPath, parsed[p].path))
       IN  IF repeat \/ r.err # <<>>
           THEN /\ Return(p, IF repeat THEN OkResult(vOlolo)
                              ELSE ErrResult(<<"secenv">> \o r.err))
                /\ UNCHANGED <<nRead, lastReq>>
           ELSE /\ nRead' = [nRead EXCEPT ![p] = @ + 1]
                /\ lastReq' = [lastReq EXCEPT ![p] = r.req]
                /\ pc' = [pc EXCEPT ![p] = "read_wait"]
                /\ UNCHANGED ret
    /\ UNCHANGED <<clock, config, token, token2, expireAt, mu, name, value, now, parsed, authSecret,
                   nFile, nExch, respKind, blocked>>

\* Get, lines 149-152 with request, lines 181-191: the read request
SendRead(p) ==
    /\ UNCHANGED <<repeat, se>>
    /\ pc[p] = "request"
    /\ LET r == request(p, "GET", Join(secretDataPath, parsed[p].path))
       IN  IF r.err # <<>>
           THEN /\ Return(p, ErrResult(<<"secenv">> \o r.err))
                /\ UNCHANGED <<nRead, lastReq>>
           ELSE /\ nRead' = [nRead EXCEPT ![p] = @ + 1]
                /\ lastReq' = [lastReq EXCEPT ![p] = r.req]
                /\ pc' = [pc EXCEPT ![p] = "read_wait"]
                /\ UNCHANGED ret
    /\ UNCHANGED <<clock, config, token, token2, expireAt, mu, name, value, now, parsed, authSecret,
                   nFile, nExch, respKind, blocked>>

\* the response of the read, with the request sent again after a transport error
ReadResponseRetry(p, r) ==
    /\ UNCHANGED <<repeat, se>>
    /\ pc[p] = "read_wait"
    /\ respKind' = [respKind EXCEPT ![p] = r.kind]
    /\ IF r.kind = "transport"
       THEN /\ pc' = [pc EXCEPT ![p] = "request"]
            /\ UNCHANGED ret
       ELSE LET pr == parse(r)
            IN  IF pr.err # <<>>
                THEN Return(p, ErrResult(<<"secenv">> \o pr.err))
                ELSE Return(p, extractField(pr.secret, parsed[p].field))
    /\ UNCHANGED <<clock, config, token, token2, expireAt, mu, name, value, now, parsed, authSecret,
                   nFile, nExch, nRead, lastReq, blocked>>

\* Get, lines 149-177: the response of the read, its decoding, the field
ReadResponse(p, r) ==
    /\ UNCHANGED <<repeat, se>>
    /\ pc[p] = "read_wait"
    /\ respKind' = [respKind EXCEPT ![p] = r.kind]
    /\ IF r.kind = "transport"
       THEN Return(p, ErrResult(<<"secenv", "doing remote request error">>))
       ELSE LET pr == parse(r)
            IN  IF pr.err # <<>>
                THEN Return(p, ErrResult(<<"secenv">> \o pr.err))
                ELSE Return(p, extractField(pr.secret, parsed[p].field))
    /\ UNCHANGED <<clock, config, token, token2, expireAt, mu, name, value, now, parsed, authSecret,
                   nFile, nExch, nRead, lastReq, blocked>>

\* time passes
Tick ==
    /\ UNCHANGED <<repeat, se>>
    /\ clock < MaxTime
    /\ clock' = clock + 1
    /\ UNCHANGED <<config, token, token2, expireAt, mu, pc, name, value, now, parsed, authSecret,
                   ret, nFile, nExch, nRead, lastReq, respKind, blocked>>

Next ==
    \/ \E p \in Procs, n \in DOMAIN environ, s \in 1..built : Call(p, n, s)
    \/ \E p \in Procs : AuthEnter(p)
    \/ \E p \in Procs, r \in Responses(AuthBodies) : AuthResponse(p, r)
    \/ \E p \in Procs : AuthStoreExpire(p)
    \/ \E p \in Procs : CheckToken(p)
    \/ \E p \in Procs : SendRead(p)
    \/ \E p \in Procs, r \in Responses({secretBody}) : ReadResponse(p, r)
    \/ Tick

Spec == Init /\ [][Next]_vars

SpecConc == InitConc /\ [][Next]_vars

\* one goroutine calls Get on a variable holding any indirection string
InitNames ==
    /\ InitLocals
    /\ method = authKubernetes
    /\ tokenFile = TRUE
    /\ addrOK = TRUE
    /\ token \in {<<>>, tokStatic}
    /\ staticToken = token
    /\ token2 = <<>>
    /\ built = 1
    /\ environ \in {[TEST |-> prefix \o s] : s \in Indirections}
    /\ secretBody = Nested(defaultField :> JStr(vOlolo))
    /\ pc = [p \in Procs |-> IF p = 1 THEN "idle" ELSE "off"]

SpecNames == InitNames /\ [][Next]_vars

\* one goroutine calls Get on two SecEnv that NewSecEnv built without an auth of their
\* own: both hold the pointer defaultConfig.auth, each holds its own cfg.token
InitShared ==
    /\ InitLocals
    /\ method = authKubernetes
    /\ tokenFile = TRUE
    /\ addrOK = TRUE
    /\ token \in {<<>>, tokStatic}
    /\ staticToken = token
    /\ token2 \in {<<>>, tokStatic}
    /\ built = 2
    /\ environ = EnvironTest
    /\ secretBody = Nested(defaultField :> JStr(vOlolo))
    /\ pc = [p \in Procs |-> IF p = 1 THEN "idle" ELSE "off"]

SpecShared == InitShared /\ [][Next]_vars

\* a step of goroutine p that waits for nothing but the scheduler or the network: every
\* network call returns, with a response or with the error of the client's timeout
\* (auth after the lock, and Get after auth)
Running(p) ==
    \/ \E r \in Responses(AuthBodies) : AuthResponse(p, r)
    \/ AuthStoreExpire(p)
    \/ CheckToken(p)
    \/ SendRead(p)
    \/ \E r \in Responses({secretBody}) : ReadResponse(p, r)

(***************************************************************************)
(* Vocabulary of the properties.                                           *)
(***************************************************************************)
\* v does not start with the marker
IsPlain(v) == \E i \in 1..Len(prefix) : i > Len(v) \/ v[i] # prefix[i]

\* the call of p has left auth (or never entered it) and not yet returned
PastAuth(p) == pc[p] \in {"check_token", "request", "read_wait"}

\* the call of p got a body from the secret service
GotBody(p) == ret[p].done /\ nRead[p] = 1 /\ respKind[p] = "ok"

\* the call of p stored a credential its own login returned
Exchanged(p) == nExch[p] = 1 /\ ~authSecret[p].nil /\ (PastAuth(p) \/ ret[p].done)

\* j is the JSON object {k: ...} with exactly one member
IsSingle(j, k) == j.t = "obj" /\ DOMAIN j.m = {k}

\* the body is {"data":{"data":{...}}}
IsNestedBody(b) ==
    /\ b.valid
    /\ IsSingle(b.json, kData)
    /\ IsSingle(b.json.m[kData], kData)
    /\ b.json.m[kData].m[kData].t = "obj"

NestedMembers(b) == b.json.m[kData].m[kData].m

\* the body is {"data":{...}} whose members are not objects
IsFlatBody(b) ==
    /\ b.valid
    /\ IsSingle(b.json, kData)
    /\ b.json.m[kData].t = "obj"

FlatMembers(b) == b.json.m[kData].m

\* the field the value of the call names: what follows the first ".", or "value"
FieldOf(p) ==
    LET rest == SubSeq(value[p], Len(prefix) + 1, Len(value[p]))
    IN  IF \E i \in 1..Len(rest) : rest[i] = "."
        THEN LET i == CHOOSE i \in 1..Len(rest) : rest[i] = "." /\ \A j \in 1..(i - 1) : rest[j] # "."
             IN  SubSeq(rest, i + 1, Len(rest))
        ELSE <<"v", "a", "l", "u", "e">>

(***************************************************************************)
(* C1: for a variable whose value does not start with "VAULT:", Get        *)
(* returns the value unchanged with a nil error, and the call reads no     *)
(* token file and hands no request to the transport, on every              *)
(* configuration and credential state.                                     *)
(***************************************************************************)
C1_PlainValueUnchanged ==
    \A p \in Procs :
        (pc[p] # "off" /\ IsPlain(environ[name[p]])) =>
            /\ nFile[p] = 0 /\ nExch[p] = 0 /\ nRead[p] = 0
            /\ pc[p] = "idle"
            /\ ret[p].done => (ret[p].val = environ[name[p]] /\ ret[p].err = <<>>)

C1_Witness ==
    /\ ret[1].done /\ name[1] = "SHORT" /\ ret[1].val = <<"V", "A", "U", "L", "T">>
    /\ method = authKubernetes /\ token = tokA /\ expireAt > 0

(***************************************************************************)
(* C2: a login request is handed to the transport only when no other login *)
(* is in flight and the credential has expired; a caller that waited for   *)
(* the lock during a login and gets it before the new expiry leaves auth   *)
(* with nil and without a request of its own.                              *)
(***************************************************************************)
C2_OneExchangeBeforeExpiry ==
    [][\A p \in Procs :
          /\ nExch'[p] > nExch[p] =>
                /\ expireAt <= clock
                /\ \A q \in Procs \ {p} : pc[q] \notin {"auth_wait", "auth_expire"}
          /\ (pc[p] = "auth_lock" /\ pc'[p] # "auth_lock" /\ clock < expireAt) =>
                /\ pc'[p] = "check_token"
                /\ nExch'[p] = 0 /\ nFile'[p] = 0]_vars

C2_Witness ==
    \E p, q \in Procs :
        /\ p # q
        /\ blocked[q] /\ pc[q] = "check_token" /\ nExch[q] = 0
        /\ nExch[p] = 1 /\ Exchanged(p)
        /\ clock < expireAt

(***************************************************************************)
(* C3: the store of the expiry sets expireAt to the time auth read at its  *)
(* start plus the lease duration of the response; a call of auth that      *)
(* gets the lock strictly before expireAt returns nil without a read of    *)
(* the token file and without a request.                                   *)
(***************************************************************************)
C3_ExpiryIsNowPlusLease ==
    [][\A p \in Procs :
          /\ (pc[p] = "auth_expire" /\ pc'[p] # "auth_expire") =>
                /\ expireAt' = now[p] + authSecret[p].LeaseDuration
                /\ pc'[p] = "check_token"
          /\ (pc[p] = "auth_lock" /\ pc'[p] # "auth_lock" /\ clock < expireAt) =>
                /\ pc'[p] = "check_token"
                /\ nFile'[p] = nFile[p] /\ nExch'[p] = nExch[p]
                /\ lastReq'[p] = lastReq[p]
                /\ ~ret'[p].done]_vars

C3_Witness ==
    \E p \in Procs :
        /\ pc[p] = "check_token" /\ nFile[p] = 0 /\ nExch[p] = 0
        /\ now[p] < expireAt /\ now[p] > 0
        /\ expireAt = 2

(***************************************************************************)
(* C4: no response makes Get panic; every failure is an error return.      *)
(***************************************************************************)
C4_NeverPanics == \A p \in Procs : pc[p] # "panic"

(***************************************************************************)
(* C5: with an empty token and no auth method, Get on an indirected value  *)
(* returns the error "no token provided" and hands no request to the       *)
(* transport.                                                              *)
(***************************************************************************)
C5_NoTokenBeforeNetwork ==
    \A p \in Procs :
        (pc[p] # "off" /\ method # authKubernetes /\ staticToken = <<>>
           /\ ~IsPlain(environ[name[p]]) /\ (pc[p] # "idle" \/ ret[p].done)) =>
            /\ nFile[p] = 0 /\ nExch[p] = 0 /\ nRead[p] = 0
            /\ pc[p] \in {"idle", "check_token"}
            /\ ret[p].done => (ret[p].val = <<>> /\ ret[p].err = <<"no token provided">>)

C5_Witness ==
    /\ ret[1].done /\ name[1] = "TEST" /\ ret[1].err = <<"no token provided">>
    /\ method = "" /\ staticToken = <<>> /\ addrOK

(***************************************************************************)
(* C6: on a resolver with an empty static token and the kubernetes method, *)
(* a Get whose login returned a non-empty client_token does not fail with  *)
(* "no token provided", and its read request carries that client_token in  *)
(* the X-Vault-token header.                                               *)
(***************************************************************************)
C6_FreshTokenUsed ==
    \A p \in Procs :
        (staticToken = <<>> /\ method = authKubernetes /\ Exchanged(p)
           /\ authSecret[p].ClientToken # <<>>) =>
            /\ ret[p].done => ret[p].err # <<"no token provided">>
            /\ nRead[p] = 1 =>
                 (lastReq[p].hasToken /\ lastReq[p].tok = authSecret[p].ClientToken)

(***************************************************************************)
(* C7: when the secret service answers {"data":{"data":{...}}} and the     *)
(* field of the value (what follows the first ".", else "value") is a      *)
(* member with a string value, Get returns exactly that string.            *)
(***************************************************************************)
C7_NestedStringReturned ==
    \A p \in Procs :
        (GotBody(p) /\ IsNestedBody(secretBody)
           /\ FieldOf(p) \in DOMAIN NestedMembers(secretBody)
           /\ NestedMembers(secretBody)[FieldOf(p)].t = "str") =>
            /\ ret[p].val = NestedMembers(secretBody)[FieldOf(p)].s
            /\ ret[p].err = <<>>

C7_Witness ==
    /\ GotBody(1) /\ name[1] = "DOTS" /\ ret[1].val = vOlolo /\ ret[1].err = <<>>
    /\ secretBody = Nested(kBC :> JStr(vOlolo))

(***************************************************************************)
(* C8: when the secret service answers {"data":{<field>:S}} with a string  *)
(* S for the field of the value ("value" without a suffix), Get returns S  *)
(* with a nil error.                                                       *)
(***************************************************************************)
C8_FlatStringReturned ==
    \A p \in Procs :
        (GotBody(p) /\ IsFlatBody(secretBody)
           /\ FieldOf(p) \in DOMAIN FlatMembers(secretBody)
           /\ FlatMembers(secretBody)[FieldOf(p)].t = "str") =>
            /\ ret[p].val = FlatMembers(secretBody)[FieldOf(p)].s
            /\ ret[p].err = <<>>

(***************************************************************************)
(* C9: when the body decodes and the nested data mapping is absent or has  *)
(* no member for the field, Get fails with "no data returned".             *)
(***************************************************************************)
C9_NoDataError ==
    \A p \in Procs :
        (GotBody(p) /\ secretBody.valid /\ secretBody.json.t = "obj"
           /\ (kData \in DOMAIN secretBody.json.m =>
                 /\ secretBody.json.m[kData].t \in {"obj", "null"}
                 /\ \A k \in DOMAIN secretBody.json.m[kData].m :
                       secretBody.json.m[kData].m[k].t \in {"obj", "null"})
           /\ ~(IsNestedBody(secretBody) /\ FieldOf(p) \in DOMAIN NestedMembers(secretBody))) =>
            /\ ret[p].val = <<>>
            /\ ret[p].err = <<"secenv", "no data returned">>

(***************************************************************************)
(* C10: when the field is a member of the nested mapping with a numeric    *)
(* value, Get returns the number as a base-10 integer string and a nil     *)
(* error.                                                                  *)
(***************************************************************************)
C10_NumberFormatted ==
    \A p \in Procs :
        (GotBody(p) /\ IsNestedBody(secretBody)
           /\ FieldOf(p) \in DOMAIN NestedMembers(secretBody)
           /\ NestedMembers(secretBody)[FieldOf(p)].t = "num") =>
            /\ ret[p].val = FormatInt(NestedMembers(secretBody)[FieldOf(p)].n)
            /\ ret[p].err = <<>>

(***************************************************************************)
(* C11: when the secret service answers with a body that is not JSON, Get  *)
(* returns no value and the error "unmarshalling error" in the context of  *)
(* the variable name, whose cause is the JSON syntax error.                *)
(***************************************************************************)
C11_DecodeErrorKeepsCause ==
    \A p \in Procs :
        (GotBody(p) /\ ~secretBody.valid) =>
            /\ ret[p].val = <<>>
            /\ ret[p].err = <<"secenv", "unmarshalling error", "json.SyntaxError">>

C11_Witness ==
    /\ GotBody(1) /\ secretBody = InvalidBody /\ name[1] = "TEST"
    /\ ret[1].err = <<"secenv", "unmarshalling error", "json.SyntaxError">>

(***************************************************************************)
(* C12: every error Get returns for an indirected value begins with the    *)
(* secenv(<name>) context.                                                 *)
(***************************************************************************)
C12_EveryErrorNamesVariable ==
    \A p \in Procs :
        (ret[p].done /\ ret[p].err # <<>>) =>
            (Len(ret[p].err) >= 2 /\ ret[p].err[1] = "secenv")

(***************************************************************************)
(* C13: splitName splits what follows the marker at the first "." only:    *)
(* without a "." the path is the whole string and the field is "value";    *)
(* with one the path has no ".", and path, ".", field give the string.     *)
(***************************************************************************)
Indirection(p) == SubSeq(value[p], Len(prefix) + 1, Len(value[p]))

HasSplit(p) == pc[p] \in {"request", "read_wait"} \/ (ret[p].done /\ nRead[p] = 1)

C13_SplitAtFirstDot ==
    \A p \in Procs :
        HasSplit(p) =>
            LET r == Indirection(p)
                s == parsed[p]
            IN  /\ \A i \in 1..Len(s.path) : s.path[i] # "."
                /\ IF \A i \in 1..Len(r) : r[i] # "."
                   THEN s.path = r /\ s.field = <<"v", "a", "l", "u", "e">>
                   ELSE s.path \o <<".">> \o s.field = r

C13_Witness ==
    /\ pc[1] = "read_wait"
    /\ Indirection(1) = <<".", ".", "a">>
    /\ parsed[1] = [path |-> <<>>, field |-> <<".", "a">>]

(***************************************************************************)
(* C14: a request handed to the transport is either a GET below            *)
(* /v1/secret that carries the current token in X-Vault-token, or the PUT  *)
(* of the kubernetes login, which carries no token.                        *)
(***************************************************************************)
C14_TokenHeaderOnlyOnReads ==
    [][\A p \in Procs :
          (lastReq'[p] # lastReq[p] /\ lastReq'[p].verb # "none") =>
              IF lastReq'[p].verb = "GET"
              THEN /\ lastReq'[p].hasToken /\ lastReq'[p].tok = token
                   /\ nRead'[p] = nRead[p] + 1
              ELSE /\ lastReq'[p].verb = "PUT"
                   /\ lastReq'[p].path = loginPath
                   /\ ~lastReq'[p].hasToken /\ lastReq'[p].tok = <<>>
                   /\ nExch'[p] = nExch[p] + 1]_vars

C14_Witness ==
    /\ pc[1] = "auth_wait" /\ lastReq[1].verb = "PUT" /\ ~lastReq[1].hasToken
    /\ token = tokA /\ value[1] = prefix \o <<"/", "/", "a">>

(***************************************************************************)
(* C15: a result of Get for an indirected value always comes from a read   *)
(* request of that very call, also when the goroutine's previous call      *)
(* resolved the same name.                                                 *)
(***************************************************************************)
C15_NoCaching ==
    \A p \in Procs :
        /\ (pc[p] = "read_wait" \/ respKind[p] # "none") =>
              (nRead[p] = 1 /\ lastReq[p].verb = "GET")
        /\ (ret[p].done /\ ret[p].err = <<>> /\ ~IsPlain(value[p])) =>
              (nRead[p] = 1 /\ respKind[p] = "ok")

C15_Witness ==
    /\ repeat /\ ret[1].done /\ ret[1].err = <<>> /\ ret[1].val = vOlolo
    /\ nRead[1] = 1 /\ respKind[1] = "ok" /\ name[1] = "FIELD"

(***************************************************************************)
(* C16: one call of Get hands at most one login and at most one read       *)
(* request to the transport, and returns when a request fails.             *)
(***************************************************************************)
C16_NoRetries ==
    \A p \in Procs :
        /\ nExch[p] <= 1 /\ nRead[p] <= 1
        /\ respKind[p] \in {"transport", "bodyerr"} => (pc[p] = "idle" /\ ret[p].done)
        /\ (respKind[p] = "ok" /\ Unmarshal(secretBody).err # "") =>
              (pc[p] = "idle" /\ ret[p].done)
        /\ (ret[p].done /\ Len(ret[p].err) >= 3
              /\ \/ ret[p].err[2] = "parsing kubernetes auth response error"
                 \/ ret[p].err[3] = "doing remote request error") =>
              (nExch[p] = 1 /\ nRead[p] = 0)

C16_Witness ==
    /\ ret[1].done /\ respKind[1] = "transport" /\ nRead[1] = 1 /\ nExch[1] = 1
    /\ ret[1].err = <<"secenv", "doing remote request error">>

\* the error contexts of a failed auth, Get lines 136-139 over auth lines 207-231
AuthErrors ==
    {"read token file error", "kubernetes auth request error",
     "parsing kubernetes auth response error"}

(***************************************************************************)
(* C17: at most one goroutine is between the expiry check of auth and the  *)
(* end of its update of the token and the expiry, and that goroutine holds *)
(* the mutex all the way; nobody else holds it then.                       *)
(***************************************************************************)
C17_RefreshMutex ==
    /\ Cardinality({p \in Procs : pc[p] \in {"auth_wait", "auth_expire"}}) <= 1
    /\ \A p \in Procs : pc[p] \in {"auth_wait", "auth_expire"} <=> mu = p
    /\ mu \in {0} \cup Procs

C17_Witness ==
    /\ pc[1] = "auth_expire" /\ mu = 1 /\ token = tokA
    /\ pc[2] = "auth_lock" /\ blocked[2]

(***************************************************************************)
(* C18: a step of auth that fails (token file, request build, transport,   *)
(* decoding) makes Get return an error and leaves the token and the expiry *)
(* as they were, with the mutex released; an unreadable token file or an   *)
(* unbuildable request always fails an auth whose token has expired.       *)
(***************************************************************************)
C18_FailedAuthKeepsCredential ==
    [][\A p \in Procs :
          /\ (pc[p] \in {"auth_lock", "auth_wait"} /\ pc'[p] = "idle") =>
                /\ ret'[p].done /\ ret'[p].val = <<>>
                /\ Len(ret'[p].err) >= 2 /\ ret'[p].err[2] \in AuthErrors
                /\ token' = token /\ expireAt' = expireAt /\ mu' = 0
          /\ (pc[p] = "auth_lock" /\ pc'[p] # "auth_lock" /\ Expired(expireAt, clock)
                /\ (~tokenFile \/ ~addrOK)) =>
                (pc'[p] = "idle" /\ token' = token /\ expireAt' = expireAt)]_vars

C18_Witness ==
    /\ ret[1].done /\ Len(ret[1].err) >= 2
    /\ ret[1].err[2] = "parsing kubernetes auth response error"
    /\ staticToken = tokStatic /\ token = tokA /\ expireAt = 1 /\ mu = 0

(***************************************************************************)
(* C19: with the kubernetes method, a call whose auth failed returns the   *)
(* error of auth and sends no read request, whatever token the resolver    *)
(* holds: a read request is only sent after an auth that found the token   *)
(* fresh or stored a new one.                                              *)
(***************************************************************************)
C19_NoReadAfterFailedAuth ==
    \A p \in Procs :
        /\ (method = authKubernetes /\ nRead[p] >= 1) =>
              (nFile[p] = 0 \/ ~authSecret[p].nil)
        /\ (ret[p].done /\ Len(ret[p].err) >= 2 /\ ret[p].err[2] \in AuthErrors) =>
              (nRead[p] = 0 /\ ret[p].val = <<>> /\ ret[p].err[1] = "secenv")
        /\ (method = authKubernetes /\ ~tokenFile /\ ret[p].done /\ ~IsPlain(value[p])) =>
              ret[p].err = <<"secenv", "read token file error">>

C19_Witness ==
    /\ method = authKubernetes /\ ~tokenFile /\ token = tokStatic
    /\ ret[1].done /\ ret[1].err = <<"secenv", "read token file error">>
    /\ nFile[1] = 1 /\ nRead[1] = 0

(***************************************************************************)
(* C20: the token of the configuration keeps the value it had when         *)
(* NewSecEnv returned.                                                     *)
(***************************************************************************)
C20_StaticTokenKept == token = staticToken

\* Get line 142 and request line 188: the goroutine is about to read cfg.token
ReadsToken(p) == pc[p] \in {"check_token", "request"}

(***************************************************************************)
(* C21: a goroutine reads cfg.token (the token check of Get, the header of *)
(* request) only while no other goroutine is inside the locked section of  *)
(* auth with the store of the token still ahead of it.                     *)
(***************************************************************************)
C21_TokenReadUnderLock ==
    \A p \in Procs : \A q \in Procs \ {p} :
        ~(ReadsToken(p) /\ mu = q /\ pc[q] = "auth_wait")

(***************************************************************************)
(* C22: no goroutine reads cfg.token while the pair is half updated, that  *)
(* is while another goroutine has stored the token of a login and not yet  *)
(* the expiry that belongs to it.                                          *)
(***************************************************************************)
C22_NoPartialCredential ==
    \A p \in Procs : \A q \in Procs \ {p} :
        (ReadsToken(p) /\ pc[q] = "auth_expire") =>
            expireAt = Expiry(now[q], authSecret[q].LeaseDuration)

(***************************************************************************)
(* C23: with the kubernetes method, a read request never carries the token *)
(* the SecEnv was built with: a login of that SecEnv came first and stored *)
(* its client token, whatever another SecEnv did before.                   *)
(***************************************************************************)
C23_OwnExchangeBeforeRead ==
    \A p \in Procs :
        (method = authKubernetes /\ nRead[p] >= 1) => lastReq[p].tok # tokStatic

(***************************************************************************)
(* C24: a login that answers lease_duration 0 succeeds: auth stores the    *)
(* token and an expiry equal to now and Get goes on; and an auth that      *)
(* finds the expiry equal to the current time reads the token file and     *)
(* sends a new login, although no time has passed.                         *)
(***************************************************************************)
C24_ZeroLeaseIsStale ==
    [][\A p \in Procs :
          /\ (pc[p] = "auth_expire" /\ pc'[p] # "auth_expire"
                /\ authSecret[p].LeaseDuration = 0) =>
                /\ pc'[p] = "check_token" /\ ~ret'[p].done
                /\ expireAt' = now[p] /\ mu' = 0
                /\ Token(p) = authSecret[p].ClientToken /\ token' = token
          /\ (pc[p] = "auth_lock" /\ pc'[p] # "auth_lock" /\ expireAt = clock) =>
                /\ nFile'[p] = 1
                /\ (tokenFile /\ addrOK) =>
                      (pc'[p] = "auth_wait" /\ nExch'[p] = 1 /\ lastReq'[p].verb = "PUT")]_vars

C24_Witness ==
    /\ clock = 0 /\ expireAt = 0 /\ token = tokA
    /\ pc[2] \in {"check_token", "request", "read_wait", "idle"}
    /\ ~authSecret[2].nil /\ authSecret[2].LeaseDuration = 0
    /\ authSecret[2].ClientToken = tokA /\ now[2] = 0
    /\ pc[1] = "auth_wait" /\ mu = 1 /\ nExch[1] = 1 /\ now[1] = 0

\* the non-empty segments of a path, in order
Segments(x) == SelectSeq(Split(x, "/"), LAMBDA t : t # <<>>)

\* the goroutine has handed its read request to the transport
SentRead(p) == lastReq[p].verb = "GET"

(***************************************************************************)
(* C25, as stated: the path of the read request is /v1/secret/data/        *)
(* followed by the parsed path.                                            *)
(***************************************************************************)
C25_PathIsDataThenParsed ==
    \A p \in Procs :
        SentRead(p) => lastReq[p].path = secretDataPath \o <<"/">> \o parsed[p].path

(***************************************************************************)
(* C25, amended: the parsed path holds no ".", and the path of the read    *)
(* request is /v1/secret/data followed by the non-empty segments of the    *)
(* parsed path, each after one "/": /v1/secret/data itself when there is   *)
(* none, and a path below /v1/secret/data/ otherwise.                      *)
(***************************************************************************)
C25_ReadPathInNamespace ==
    \A p \in Procs :
        SentRead(p) =>
            /\ \A i \in 1..Len(parsed[p].path) : parsed[p].path[i] # "."
            /\ lastReq[p].path = secretDataPath \o JoinSegs(Segments(parsed[p].path))
            /\ \/ lastReq[p].path = secretDataPath
               \/ /\ HasPrefix(lastReq[p].path, secretDataPath \o <<"/">>)
                  /\ Len(lastReq[p].path) > Len(secretDataPath) + 1
                  /\ lastReq[p].path[Len(lastReq[p].path)] # "/"

C25_Witness ==
    /\ pc[1] = "read_wait" /\ parsed[1].path = <<"/", "/", "a">>
    /\ lastReq[1].path = secretDataPath \o <<"/", "a">>

(***************************************************************************)
(* C26: no call of Get is stuck: a goroutine inside Get can take its next  *)
(* step, or it waits for the mutex and the goroutine holding the mutex can *)
(* take its next step.                                                     *)
(***************************************************************************)
C26_NoCallStuck ==
    \A p \in Procs :
        (pc[p] \notin {"idle", "off"}) =>
            \/ ENABLED Running(p)
            \/ ENABLED AuthEnter(p)
            \/ pc[p] = "auth_lock" /\ mu \in Procs \ {p} /\ ENABLED Running(mu)

====
